---- MODULE Spec2Model ----
(***************************************************************************)
(* EduVision: the rarity roller (rollRarity) and the proximity filter      *)
(* (loadNearbyQuestions) of the three app variants:                        *)
(*   "google"   - Firestore + Google sign-in   (src/unnamed/part_000)      *)
(*   "local"    - localStorage only            (src/unnamed/part_001)      *)
(*   "username" - Firestore + username         (src/unnamed/part_002)      *)
(*                                                                         *)
(* Encoding.  Latitudes and longitudes are integers in hundredths of a     *)
(* degree.  Distances and radii are whole metres.  A Math.random() value   *)
(* is an integer numerator rnd over the denominator RandomDenominator.     *)
(***************************************************************************)
EXTENDS Integers, Sequences, FiniteSets, TLC

VARIABLES
    variant,          \* which of the three app variants is running
    questions,        \* Firestore collection "questions", in insertion order
    lsIndex,          \* localStorage["geoq-index"]: NoItem, Corrupt or StoredIndex(..)
    lsItems,          \* localStorage[id] for every id that has a stored record
    nextId,           \* ids / timestamps handed out so far
    nearbyQuestions,  \* what the last loadNearbyQuestions call returned
    lastQuery,        \* the arguments of the last call that read its candidates,
                      \* <<[lat, lng, radius]>>, else NoQuery
    lastCandidates,   \* the candidate list that call read from storage
    loadStatus,       \* how the last call ended: "none" (no call yet), "ok",
                      \* "rejected" (getDocs rejected), "threw" (its own code threw)
    repeatedCall,     \* the last call returned, and so did the call before it,
                      \* on the same observer, radius and candidate list
    tierTable,        \* the RARITIES table the module was loaded with
    roll,             \* the Math.random() numerator of the last rollRarity
                      \* (0 while questionRarity is still NoRarity)
    questionRarity,   \* what the last rollRarity call returned
    image,            \* the uploaded image of the create tab, or NoImage
    subject,          \* the chosen subject, or NoSubject
    loading,          \* a generateQuestionAPI request is in flight
    result,           \* the displayed question, <<[image, subject, rolled]>>:
                      \* what it was generated from and the tier rolled for
                      \* its generation; <<>> while there is none
    genCall,          \* the generateQuestionAPI request in flight, as result
    publishing,       \* handlePublish is running
    published,        \* the displayed question was published
    publishError,     \* the message of the last failed publish, or NoError
    pub,              \* where the running handlePublish stands and what its
                      \* closure captured
    publishStep,      \* the progress line shown under the Publish button
    lateWrites,       \* the addDoc calls still pending after their handlePublish
                      \* gave up on them, as the documents they will store
    generated,        \* how many generateQuestionAPI requests were made
    userLocation,     \* the cached location, <<[lat, lng]>>, or <<>>
    geoError,         \* the message of the last failed location request
    permission,       \* the browser's location permission for the page:
                      \* "prompt" (not answered), "granted" or "denied"
    searchRadius,     \* the radius selected in the explore tab
    calls,            \* the loadExplore invocations in flight, by call site
    userDoc,          \* the signed-in user's Firestore document,
                      \* <<[points, answeredIds]>>, or <<>> before it is created
    userLoad,         \* the mount effect that loads it: "loading" or "done"
    userPoints,       \* the points total the header shows
    answeredIds,      \* the ids the session holds as answered
    awards,           \* the awardPoints calls awaiting updateDoc, each
                      \* [id, pts, seen]: seen is the answeredIds of its closure
    exploreChoices    \* the letter chosen at each answered position of the
                      \* explore list

vars == <<variant, questions, lsIndex, lsItems, nextId, nearbyQuestions,
          lastQuery, lastCandidates, loadStatus, repeatedCall, tierTable, roll,
          questionRarity, image, subject, loading, result, genCall, publishing,
          published, publishError, pub, publishStep, lateWrites, generated,
          userLocation, geoError, permission, searchRadius, calls, userDoc, userLoad, userPoints, answeredIds,
          awards, exploreChoices>>

storeVars == <<variant, questions, lsIndex, lsItems, nextId>>
queryVars == <<nearbyQuestions, lastQuery, lastCandidates, loadStatus, repeatedCall>>
rarityVars == <<tierTable, roll, questionRarity>>
createVars == <<image, subject, loading, result, genCall, publishing, published,
                publishError, pub, publishStep, lateWrites, generated>>
geoVars == <<userLocation, geoError, permission>>
exploreVars == <<searchRadius, calls>>
awardVars == <<userDoc, userLoad, userPoints, answeredIds, awards, exploreChoices>>
appVars == <<createVars, geoVars, exploreVars, awardVars>>

(***************************************************************************)
(* Bounds of the model.                                                    *)
(***************************************************************************)
\* questions published on top of the seeded store
MaxPublish == 2
\* questions already stored when a Firestore variant starts (or none)
SeedCloud == 38
\* index entries already stored when the localStorage variant starts (or none)
SeedLocal == 26
\* grid points per unit of weight for Math.random() * totalWeight
DrawsPerUnit == 2
\* how far a draw may overshoot totalWeight (stubbed random source, drift)
MaxOvershoot == 3
\* generateQuestionAPI requests of a session (each returns a question of its own)
MaxGenerate == 1
\* questions stored before the session in a long-used store
SeedAtLimit == 200
\* questions published on top of a long-used store
MaxLate == 1



(***************************************************************************)
(* Program constants.                                                      *)
(***************************************************************************)
\* .slice(0, 30) in the Firestore variants
FirestoreCap == 30
\* nearby.slice(0, 20) in the localStorage variant
LocalCap == 20
\* limit(200) of loadAllQuestions
QueryLimit == 200
\* index.slice(-200) of publishQuestion
IndexLimit == 200

\* a menu with a 10 km button added
RadiusMenuWithTen == {1000, 5000, 10000, 25000, 50000}

\* the radius buttons of the explore tab
RadiusMenu == {1000, 5000, 25000, 50000}

Variants == {"google", "local", "username"}
FirestoreVariants == {"google", "username"}

\* localStorage.getItem("geoq-index"): null, text JSON.parse rejects, or the
\* JSON of an array of index entries
NoItem == [kind |-> "null", entries |-> <<>>]
Corrupt == [kind |-> "corrupt", entries |-> <<>>]
StoredIndex(entries) == [kind |-> "array", entries |-> entries]

NoQuery == <<>>

\* places, <<lat, lng>> in hundredths of a degree, where a question is
\* published during the session: 0.01 degrees and 1 degree east of <<0, 0>>
Points == {<<0, 1>>, <<0, 100>>}
\* places the querying user can be
Observers == {<<0, 0>>, <<0, 1>>}

\* a sequence without its k-th element
RemoveAt(s, k) == SubSeq(s, 1, k - 1) \o SubSeq(s, k + 1, Len(s))

Min(a, b) == IF a <= b THEN a ELSE b

(***************************************************************************)
(* haversineDistance: R * 2 * atan2(sqrt(a), sqrt(1 - a)) with R = 6371000 *)
(* and a = sin^2(dLat/2) + cos(lat1) cos(lat2) sin^2(dLon/2), evaluated in *)
(* IEEE double precision at the grid points and cut to whole metres.  On   *)
(* this grid two distances are equal as doubles exactly when their whole   *)
(* metres are equal, and no distance lies within a metre above a radius of *)
(* RadiusMenu, so comparisons of the metres are the code's comparisons.    *)
(***************************************************************************)
HaversineTable ==
    <<0, 0, 0, 0>> :> 0 @@ <<0, 0, 0, 1>> :> 1111 @@
    <<0, 0, 1, 0>> :> 1111 @@ <<0, 0, 0, 10>> :> 11119 @@
    <<0, 0, 0, 30>> :> 33358 @@ <<0, 0, 0, 100>> :> 111194 @@
    <<0, 1, 0, 0>> :> 1111 @@ <<0, 1, 0, 1>> :> 0 @@
    <<0, 1, 1, 0>> :> 1572 @@ <<0, 1, 0, 10>> :> 10007 @@
    <<0, 1, 0, 30>> :> 32246 @@ <<0, 1, 0, 100>> :> 110082 @@
    <<1, 0, 0, 0>> :> 1111 @@ <<1, 0, 0, 1>> :> 1572 @@
    <<1, 0, 1, 0>> :> 0 @@ <<1, 0, 0, 10>> :> 11174 @@
    <<1, 0, 0, 30>> :> 33377 @@ <<1, 0, 0, 100>> :> 111200 @@
    <<0, 10, 0, 0>> :> 11119 @@ <<0, 10, 0, 1>> :> 10007 @@
    <<0, 10, 1, 0>> :> 11174 @@ <<0, 10, 0, 10>> :> 0 @@
    <<0, 10, 0, 30>> :> 22238 @@ <<0, 10, 0, 100>> :> 100075 @@
    <<0, 30, 0, 0>> :> 33358 @@ <<0, 30, 0, 1>> :> 32246 @@
    <<0, 30, 1, 0>> :> 33377 @@ <<0, 30, 0, 10>> :> 22238 @@
    <<0, 30, 0, 30>> :> 0 @@ <<0, 30, 0, 100>> :> 77836 @@
    <<0, 100, 0, 0>> :> 111194 @@ <<0, 100, 0, 1>> :> 110082 @@
    <<0, 100, 1, 0>> :> 111200 @@ <<0, 100, 0, 10>> :> 100075 @@
    <<0, 100, 0, 30>> :> 77836 @@ <<0, 100, 0, 100>> :> 0

\* const R = 6371000
EarthRadius == 6371000

\* the distance with R = 6371, the radius in kilometres
haversineKilometres(lat1, lon1, lat2, lon2) ==
    HaversineTable[<<lat1, lon1, lat2, lon2>>] \div 1000

haversineDistance(lat1, lon1, lat2, lon2) ==
    HaversineTable[<<lat1, lon1, lat2, lon2>>]

(***************************************************************************)
(* The proximity filter: map / filter / sort / slice.                      *)
(***************************************************************************)
\* { ...q, distance: d }
WithDistance(q, d) ==
    [f \in (DOMAIN q) \cup {"distance"} |->
        IF f = "distance" THEN d ELSE q[f]]

\* .map((q) => ({ ...q, distance: haversineDistance(userLat, userLng, q.lat, q.lng) }))
MapDistance(all, userLat, userLng) ==
    [i \in 1..Len(all) |->
        WithDistance(all[i],
                     haversineDistance(userLat, userLng, all[i].lat, all[i].lng))]

\* the filter with the radius argument ignored in favour of the default
WithinDefaultRadius(q, radiusMeters) == q.distance <= 50000

WithinRadius(q, radiusMeters) == q.distance <= radiusMeters

\* .filter((q) => q.distance <= radiusMeters)
FilterRadius(s, radiusMeters) ==
    SelectSeq(s, LAMBDA q : WithinRadius(q, radiusMeters))

\* the comparator (a, b) => a.distance - b.distance
CompareDistance(a, b) == a.distance - b.distance

\* a sort that puts q in front of the elements it ties with
RECURSIVE InsertBeforeTies(_, _)
InsertBeforeTies(sorted, q) ==
    IF sorted = <<>> THEN <<q>>
    ELSE IF CompareDistance(Head(sorted), q) < 0
         THEN <<Head(sorted)>> \o InsertBeforeTies(Tail(sorted), q)
         ELSE <<q>> \o sorted

\* One step of the stable sort: q, which came after every element of sorted
\* in the input, goes behind every element that does not compare greater.
RECURSIVE InsertSorted(_, _)
InsertSorted(sorted, q) ==
    IF sorted = <<>> THEN <<q>>
    ELSE IF CompareDistance(Head(sorted), q) <= 0
         THEN <<Head(sorted)>> \o InsertSorted(Tail(sorted), q)
         ELSE <<q>> \o sorted

\* .sort((a, b) => a.distance - b.distance): Array.prototype.sort is stable
RECURSIVE SortByDistance(_)
SortByDistance(s) ==
    IF s = <<>> THEN <<>>
    ELSE InsertSorted(SortByDistance(SubSeq(s, 1, Len(s) - 1)), s[Len(s)])

\* the cap left out
SliceNoCap(s, cap) == s

\* .slice(1, cap): the first element lost
SliceSkipsFirst(s, cap) == SubSeq(s, 2, Min(cap, Len(s)))

\* .slice(0, cap)
SliceFront(s, cap) == SubSeq(s, 1, Min(cap, Len(s)))

\* .slice(-n)
\* index.slice(0, 200): the oldest entries kept, the new one cut off
SliceOldest(s, n) == SubSeq(s, 1, Min(n, Len(s)))

SliceBack(s, n) == SubSeq(s, Len(s) - Min(n, Len(s)) + 1, Len(s))

\* map, filter and sort of loadNearbyQuestions, before the cap
RankNearby(all, userLat, userLng, radiusMeters) ==
    SortByDistance(FilterRadius(MapDistance(all, userLat, userLng), radiusMeters))

Reverse(s) == [i \in 1..Len(s) |-> s[Len(s) + 1 - i]]

\* the query ordered by timestamp ascending: the 200 oldest, oldest first
loadOldestQuestions == SliceFront(questions, QueryLimit)

\* query(collection(db, "questions"), orderBy("timestamp", "desc"), limit(200)):
\* timestamps grow with insertion, so newest first is the collection reversed
loadAllQuestions == SliceFront(Reverse(questions), QueryLimit)

\* how a call ends: it returns value, or it throws
Returned(value) == [status |-> "ok", value |-> value]
Threw == [status |-> "threw", value |-> <<>>]

\* the filter keeping the radius of the call before it and using it again
NearbyFirestoreStaleRadius(allQuestions, userLat, userLng, radiusMeters) ==
    SliceFront(RankNearby(allQuestions, userLat, userLng,
                          IF lastQuery = NoQuery THEN radiusMeters
                          ELSE lastQuery[1].radius),
               FirestoreCap)

\* loadNearbyQuestions of the Firestore variants, given what loadAllQuestions read
NearbyFirestore(allQuestions, userLat, userLng, radiusMeters) ==
    SliceFront(RankNearby(allQuestions, userLat, userLng, radiusMeters), FirestoreCap)

\* { ...entry, ...JSON.parse(data) }
Merge(entry, data) ==
    [f \in (DOMAIN entry) \cup (DOMAIN data) |->
        IF f \in DOMAIN data THEN data[f] ELSE entry[f]]

\* the index as loadNearbyQuestions / publishQuestion parse it: a missing key
\* leaves index = []
ParsedIndex == IF lsIndex \in {NoItem, Corrupt} THEN <<>> ELSE lsIndex.entries

\* for (const entry of nearby.slice(0, 20)) { if (data) results.push(...) }
RECURSIVE CollectStored(_)
CollectStored(entries) ==
    IF entries = <<>> THEN <<>>
    ELSE IF Head(entries).id \in DOMAIN lsItems
         THEN <<Merge(Head(entries), lsItems[Head(entries).id])>>
                  \o CollectStored(Tail(entries))
         ELSE CollectStored(Tail(entries))

\* the localStorage variant without the catch around JSON.parse
NearbyLocalNoCatch(userLat, userLng, radiusMeters) ==
    IF lsIndex = Corrupt THEN Threw
    ELSE Returned(CollectStored(
             SliceFront(RankNearby(ParsedIndex, userLat, userLng, radiusMeters),
                        LocalCap)))

\* loadNearbyQuestions of the localStorage variant:
\* try { ... index = JSON.parse(existing) } catch { return []; }
NearbyLocal(userLat, userLng, radiusMeters) ==
    IF lsIndex = Corrupt THEN Returned(<<>>)
    ELSE Returned(CollectStored(
             SliceFront(RankNearby(ParsedIndex, userLat, userLng, radiusMeters),
                        LocalCap)))

(***************************************************************************)
(* Storage: what a session finds, and the publishing helpers.              *)
(***************************************************************************)
\* where the questions stored before the session were published, in turn
SeedPlaces == << <<0, 1>>, <<1, 0>>, <<0, 10>>, <<0, 30>>, <<0, 100>> >>
SeedPlace(i) == SeedPlaces[((i - 1) % Len(SeedPlaces)) + 1]

\* n questions stored before the session; they carry the ids (and
\* timestamps) 1 - n .. 0
SeededDocs(n) ==
    [i \in 1..n |-> [id |-> i - n, lat |-> SeedPlace(i)[1],
                     lng |-> SeedPlace(i)[2], timestamp |-> i - n]]

\* the record stored under an id by localStorage.setItem(id, JSON.stringify(questionData))
StoredData(at) == [lat |-> at[1], lng |-> at[2]]

SeededItems(n) == [i \in (1 - n)..0 |-> StoredData(SeedPlace(i + n))]

\* a long-used store: the oldest questions were published around the
\* observers, every later one 1 degree east of them
OlderPlace(i, near) == IF i <= near THEN SeedPlace(i) ELSE <<0, 100>>

OlderDocs(n, near) ==
    [i \in 1..n |-> [id |-> i - n, lat |-> OlderPlace(i, near)[1],
                     lng |-> OlderPlace(i, near)[2], timestamp |-> i - n]]

OlderItems(n, near) == [i \in (1 - n)..0 |-> StoredData(OlderPlace(i + n, near))]

SeedSize(v) == IF v = "local" THEN SeedLocal ELSE SeedCloud

InitStore ==
    /\ variant \in Variants
    /\ nextId = 0
    /\ \E n \in {0, SeedSize(variant)} :
          IF variant = "local"
          THEN /\ questions = <<>>
               /\ lsIndex = (IF n = 0 THEN NoItem ELSE StoredIndex(SeededDocs(n)))
               /\ lsItems = SeededItems(n)
          ELSE /\ questions = SeededDocs(n)
               /\ lsIndex = NoItem
               /\ lsItems = <<>>

EmptyStore ==
    /\ variant = "google"
    /\ nextId = 0
    /\ questions = <<>>
    /\ lsIndex = NoItem
    /\ lsItems = <<>>

InitQuery ==
    /\ nearbyQuestions = <<>>
    /\ lastQuery = NoQuery
    /\ lastCandidates = <<>>
    /\ loadStatus = "none"
    /\ repeatedCall = FALSE

\* addDoc(collection(db, "questions"), { ...docData, timestamp: Date.now() })
PublishFirestore ==
    /\ variant \in FirestoreVariants
    /\ nextId < MaxPublish
    /\ \E at \in Points :
          questions' = Append(questions,
                              [id |-> nextId + 1, lat |-> at[1], lng |-> at[2],
                               timestamp |-> nextId + 1])
    /\ nextId' = nextId + 1
    /\ UNCHANGED <<variant, lsIndex, lsItems, queryVars, rarityVars, appVars>>

\* index.push({...}); if (index.length > 200) index = index.slice(-200)
PushedIndex(entry) ==
    LET pushed == Append(ParsedIndex, entry)
    IN  IF Len(pushed) > IndexLimit THEN SliceBack(pushed, IndexLimit) ELSE pushed

\* publishQuestion of the localStorage variant.  Either setItem may throw
\* (storage quota): the first leaves storage as it was, the second leaves the
\* new index entry without its record.
PublishLocal ==
    /\ variant = "local"
    /\ nextId < MaxPublish
    /\ \E at \in Points, quota \in {"ok", "index_throws", "item_throws"} :
          LET id == nextId + 1
              entry == [id |-> id, lat |-> at[1], lng |-> at[2], timestamp |-> id]
          IN  /\ lsIndex' = (IF quota = "index_throws" THEN lsIndex
                             ELSE StoredIndex(PushedIndex(entry)))
              /\ lsItems' = (IF quota = "ok"
                             THEN (id :> StoredData(at)) @@ lsItems
                             ELSE lsItems)
    /\ nextId' = nextId + 1
    /\ UNCHANGED <<variant, questions, queryVars, rarityVars, appVars>>

\* localStorage is shared with the user and other scripts of the origin: the
\* index key can come to hold text JSON.parse rejects
CorruptIndex ==
    /\ variant = "local"
    /\ lsIndex # Corrupt
    /\ lsIndex' = Corrupt
    /\ UNCHANGED <<variant, questions, lsItems, nextId, queryVars, rarityVars, appVars>>

\* this call returns, the call before it returned, and both were given the
\* same observer and radius and read the same candidate list
SameCall(at, radius, candidates, status) ==
    /\ status = "ok"
    /\ loadStatus = "ok"
    /\ lastQuery = <<[lat |-> at[1], lng |-> at[2], radius |-> radius]>>
    /\ lastCandidates = candidates

(***************************************************************************)
(* loadNearbyQuestions(userLat, userLng, radiusMeters), as loadExplore     *)
(* calls it: setNearbyQuestions(await loadNearbyQuestions(...)) keeps the  *)
(* returned array, and the catch keeps the old array when the call fails.  *)
(***************************************************************************)
LoadNearbyFirestore ==
    /\ variant \in FirestoreVariants
    /\ \E at \in Observers, radius \in RadiusMenu :
          /\ nearbyQuestions' = NearbyFirestore(loadAllQuestions, at[1], at[2], radius)
          /\ lastQuery' = <<[lat |-> at[1], lng |-> at[2], radius |-> radius]>>
          /\ repeatedCall' = SameCall(at, radius, loadAllQuestions, "ok")
    /\ lastCandidates' = loadAllQuestions
    /\ loadStatus' = "ok"
    /\ UNCHANGED <<storeVars, rarityVars, appVars>>

\* getDocs rejects (offline, security rules): nothing is read
LoadNearbyRejected ==
    /\ variant \in FirestoreVariants
    /\ loadStatus' = "rejected"
    /\ lastQuery' = NoQuery
    /\ lastCandidates' = <<>>
    /\ repeatedCall' = FALSE
    /\ UNCHANGED <<storeVars, nearbyQuestions, rarityVars, appVars>>

\* the localStorage filter ranking the parsed index in place and storing it
\* back, distances and all
LoadNearbyLocalSavesIndex ==
    /\ variant = "local"
    /\ \E at \in Observers, radius \in RadiusMenu :
          LET out == NearbyLocal(at[1], at[2], radius)
          IN  /\ nearbyQuestions' =
                    (IF out.status = "ok" THEN out.value ELSE nearbyQuestions)
              /\ loadStatus' = out.status
              /\ lastQuery' = <<[lat |-> at[1], lng |-> at[2], radius |-> radius]>>
              /\ repeatedCall' = SameCall(at, radius, ParsedIndex, out.status)
              /\ lsIndex' = (IF lsIndex \in {NoItem, Corrupt} THEN lsIndex
                             ELSE StoredIndex(RankNearby(ParsedIndex, at[1], at[2],
                                                         radius)))
    /\ lastCandidates' = ParsedIndex
    /\ UNCHANGED <<variant, questions, lsItems, nextId, rarityVars, appVars>>

LoadNearbyLocal ==
    /\ variant = "local"
    /\ \E at \in Observers, radius \in RadiusMenu :
          LET out == NearbyLocal(at[1], at[2], radius)
          IN  /\ nearbyQuestions' =
                    (IF out.status = "ok" THEN out.value ELSE nearbyQuestions)
              /\ loadStatus' = out.status
              /\ lastQuery' = <<[lat |-> at[1], lng |-> at[2], radius |-> radius]>>
              /\ repeatedCall' = SameCall(at, radius, ParsedIndex, out.status)
    /\ lastCandidates' = ParsedIndex
    /\ UNCHANGED <<storeVars, rarityVars, appVars>>

(***************************************************************************)
(* The rarity roller.                                                      *)
(***************************************************************************)
RARITIES ==
    << [id |-> "common",    label |-> "Common",    points |-> 10,  weight |-> 50],
       [id |-> "uncommon",  label |-> "Uncommon",  points |-> 25,  weight |-> 30],
       [id |-> "rare",      label |-> "Rare",      points |-> 50,  weight |-> 13],
       [id |-> "epic",      label |-> "Epic",      points |-> 100, weight |-> 5],
       [id |-> "legendary", label |-> "Legendary", points |-> 250, weight |-> 2] >>

\* useState(null) of questionRarity
NoRarity == "null"

\* RARITIES.reduce((sum, r) => sum + r.weight, 0)
RECURSIVE TotalWeight(_)
TotalWeight(table) ==
    IF table = <<>> THEN 0
    ELSE TotalWeight(SubSeq(table, 1, Len(table) - 1)) + table[Len(table)].weight

\* Math.random() returns rnd / RandomDenominator for some rnd in
\* 0 .. RandomDenominator - 1; the grid is a multiple of the table's total
\* weight, so every tier boundary of roll = Math.random() * totalWeight is a
\* grid point and the draws between two grid points behave as the upper one
RandomDenominator == TotalWeight(RARITIES) * DrawsPerUnit

\* the test written roll < 0
SelectedStrict(left) == left < 0

\* if (roll <= 0) return r.id, with roll scaled by RandomDenominator
Selected(left) == left <= 0

\* the loop falling off its end with no return after it
FallbackUndefined == "undefined"

\* return "common" after the loop
Fallback == "common"

\* the walk returning r.label where r.id is meant
RECURSIVE WalkReturnsLabel(_, _)
WalkReturnsLabel(tiers, rollLeft) ==
    IF tiers = <<>> THEN Fallback
    ELSE LET left == rollLeft - Head(tiers).weight * RandomDenominator
         IN  IF Selected(left) THEN Head(tiers).label
             ELSE WalkReturnsLabel(Tail(tiers), left)

\* the walk comparing the draw with each weight, nothing subtracted for good
RECURSIVE WalkNoAccumulate(_, _)
WalkNoAccumulate(tiers, rollLeft) ==
    IF tiers = <<>> THEN Fallback
    ELSE IF Selected(rollLeft - Head(tiers).weight * RandomDenominator)
         THEN Head(tiers).id
         ELSE WalkNoAccumulate(Tail(tiers), rollLeft)

\* for (const r of RARITIES) { roll -= r.weight; if (roll <= 0) return r.id; }
\* return "common";     rollLeft is roll * RandomDenominator
RECURSIVE WalkTiers(_, _)
WalkTiers(tiers, rollLeft) ==
    IF tiers = <<>> THEN Fallback
    ELSE LET left == rollLeft - Head(tiers).weight * RandomDenominator
         IN  IF Selected(left) THEN Head(tiers).id
             ELSE WalkTiers(Tail(tiers), left)

\* rollRarity() when Math.random() returns rnd / RandomDenominator
rollRarity(rnd) == WalkTiers(tierTable, rnd * TotalWeight(tierTable))

InitRarity ==
    /\ tierTable = RARITIES
    /\ roll = 0
    /\ questionRarity = NoRarity

\* setQuestionRarity(rollRarity()) with Math.random() in [0, 1)
RollRarity ==
    /\ \E rnd \in 0..(RandomDenominator - 1) :
          /\ roll' = rnd
          /\ questionRarity' = rollRarity(rnd)
    /\ UNCHANGED <<storeVars, queryVars, tierTable, appVars>>

\* The boundary the fallback is there for: the draw reaches or passes
\* totalWeight (a stubbed random source, or a residual left by rounding)
RollRarityOvershoot ==
    /\ \E rnd \in RandomDenominator..(RandomDenominator + MaxOvershoot) :
          /\ roll' = rnd
          /\ questionRarity' = rollRarity(rnd)
    /\ UNCHANGED <<storeVars, queryVars, tierTable, appVars>>

\* A table edited to weigh nothing, and the two-tier table {common: 50,
\* legendary: 2}: RARITIES is the only table the shipped module holds, the
\* others are what an edit of the configuration would load
ZeroTable == [i \in 1..Len(RARITIES) |-> [RARITIES[i] EXCEPT !.weight = 0]]
TwoTierTable == << RARITIES[1], RARITIES[5] >>
ConfigTables == {RARITIES, ZeroTable, TwoTierTable}

\* module load: const RARITIES = [...] is defined and nothing inspects it
InitConfig ==
    /\ tierTable \in ConfigTables
    /\ roll = 0
    /\ questionRarity = NoRarity

(***************************************************************************)
(* The create tab of the Google sign-in variant: upload, subject,          *)
(* generate, reset and publish.  An await is a step boundary: the handler  *)
(* up to its await is one action, each way the awaited promise can settle  *)
(* is another.                                                             *)
(***************************************************************************)
NoImage == "null"
Images == {"imgA", "imgB"}
NoSubject == "null"
Subjects == {"math"}
NoError == "null"

\* the Math.random() value the create tab is run with: the upper end of the
\* range, which rolls the last tier, so that a rolled tier is told from
\* the "common" that questionRarity || "common" falls back to
GenerateDraws == {RandomDenominator - 1}

\* thumbnail.length > 500000
ThumbnailLimit == 500000
\* lengths of the base64 text compressImage resolves with
ThumbnailLengths == {ThumbnailLimit, ThumbnailLimit + 1}

\* setPublishStep(...)
NoStep == ""
StepLocation == "Getting your location..."
StepImage == "Preparing image..."
StepSaving == "Saving to database..."

\* no handlePublish running
IdlePublish ==
    [pc |-> "idle", question |-> <<>>, rarity |-> NoRarity, image |-> NoImage,
     lat |-> 0, lng |-> 0, thumbnail |-> 0]

\* where loadExplore is called from: the radius buttons, and the refresh
\* button with the effect run on entering the tab.  Each has at most one
\* call in flight.
CallSites == {"radius", "refresh"}

\* no loadExplore running at a call site
IdleCall == [pc |-> "idle", radius |-> 0, lat |-> 0, lng |-> 0]

\* useState(...) of MainApp, and the users document that the session finds
InitSession(doc) ==
    /\ image = NoImage
    /\ subject = NoSubject
    /\ loading = FALSE
    /\ result = <<>>
    /\ genCall = <<>>
    /\ publishing = FALSE
    /\ published = FALSE
    /\ publishError = NoError
    /\ pub = IdlePublish
    /\ publishStep = NoStep
    /\ lateWrites = {}
    /\ generated = 0
    /\ userLocation = <<>>
    /\ geoError = NoError
    /\ permission = "prompt"
    /\ searchRadius = 5000
    /\ calls = [site \in CallSites |-> IdleCall]
    /\ userDoc = doc
    /\ userLoad = "loading"
    /\ userPoints = 0
    /\ answeredIds = {}
    /\ awards = <<>>
    /\ exploreChoices = <<>>

\* a first login: no users document yet
InitApp == InitSession(<<>>)

\* handleFile(file): the drop zone is rendered while there is no image
HandleFile ==
    /\ image = NoImage
    /\ \E img \in Images : image' = img
    /\ result' = <<>>
    /\ published' = FALSE
    /\ UNCHANGED <<awardVars, publishStep, lateWrites, generated,
                   storeVars, queryVars, rarityVars, subject, loading, genCall,
                   publishing, publishError, pub, geoVars, exploreVars>>

\* a subject button: setSubject(s.id); setResult(null); setPublished(false)
SelectSubject ==
    /\ \E s \in Subjects : subject' = s
    /\ result' = <<>>
    /\ published' = FALSE
    /\ UNCHANGED <<awardVars, publishStep, lateWrites, generated,
                   storeVars, queryVars, rarityVars, image, loading, genCall,
                   publishing, publishError, pub, geoVars, exploreVars>>

\* handleGenerate up to its await.  The Generate button is enabled by
\* canGenerate, the Regenerate button of the result card by !loading, and
\* the handler returns at once without an image or a subject.
HandleGenerate ==
    /\ ~loading
    /\ generated < MaxGenerate
    /\ generated' = generated + 1
    /\ image # NoImage
    /\ subject # NoSubject
    /\ loading' = TRUE
    /\ result' = <<>>
    /\ published' = FALSE
    /\ publishError' = NoError
    /\ \E rnd \in GenerateDraws :
          /\ roll' = rnd
          /\ questionRarity' = rollRarity(rnd)
          /\ genCall' = <<[image |-> image, subject |-> subject,
                           rolled |-> rollRarity(rnd),
                           serial |-> generated + 1]>>
    /\ UNCHANGED <<awardVars, publishStep, lateWrites,
                   storeVars, queryVars, tierTable, image, subject, publishing,
                   pub, geoVars, exploreVars>>

\* generateQuestionAPI resolves: setResult(...), then setLoading(false)
GenerateResolved ==
    /\ genCall # <<>>
    /\ result' = genCall
    /\ genCall' = <<>>
    /\ loading' = FALSE
    /\ UNCHANGED <<awardVars, publishStep, lateWrites, generated,
                   storeVars, queryVars, rarityVars, image, subject, publishing,
                   published, publishError, pub, geoVars, exploreVars>>

\* generateQuestionAPI rejects: setError(...), then setLoading(false)
GenerateRejected ==
    /\ genCall # <<>>
    /\ genCall' = <<>>
    /\ loading' = FALSE
    /\ UNCHANGED <<awardVars, publishStep, lateWrites, generated,
                   storeVars, queryVars, rarityVars, image, subject, result,
                   publishing, published, publishError, pub, geoVars, exploreVars>>

\* handleReset: the remove button of the image preview
HandleReset ==
    /\ image # NoImage
    /\ image' = NoImage
    /\ subject' = NoSubject
    /\ result' = <<>>
    /\ published' = FALSE
    /\ geoError' = NoError
    /\ publishError' = NoError
    /\ questionRarity' = NoRarity
    /\ UNCHANGED <<awardVars, publishStep, lateWrites, generated,
                   storeVars, queryVars, tierTable, roll, loading, genCall,
                   publishing, pub, userLocation, permission, exploreVars>>

\* Error messages of handlePublish and getCurrentPosition
LocationFailed == "Could not get your location. Please allow location access and try again."
WriteTimedOut == "Firestore write timed out."
WriteFailed == "Failed to publish. Check browser console for details."
GeoDenied == "Location access denied. Please enable permissions."
GeoUnavailable == "Location unavailable. Try again."

\* getCurrentPosition's error callback: code 1 once permission is denied,
\* code 2 or 3 (unavailable, the 15 s timeout) once it is granted
GeoErrors == IF permission = "denied" THEN {GeoDenied} ELSE {GeoUnavailable}

\* the browser's permission prompt is answered while a request waits on it
AnswerPrompt ==
    /\ permission = "prompt"
    /\ \/ pub.pc = "locating"
       \/ \E site \in CallSites : calls[site].pc = "locating"
    /\ permission' \in {"granted", "denied"}
    /\ UNCHANGED <<awardVars, storeVars, queryVars, rarityVars, createVars, userLocation,
                   geoError, exploreVars>>

\* handlePublish without its setPublishError(null)
HandlePublishKeepsError ==
    /\ result # <<>>
    /\ ~published
    /\ ~publishing
    /\ nextId < MaxPublish
    /\ publishing' = TRUE
    /\ publishStep' = (IF userLocation = <<>> THEN StepLocation ELSE StepImage)
    /\ pub' = [pc |-> IF userLocation = <<>> THEN "locating" ELSE "thumbnail",
               question |-> result, rarity |-> questionRarity, image |-> image,
               lat |-> IF userLocation = <<>> THEN 0 ELSE userLocation[1].lat,
               lng |-> IF userLocation = <<>> THEN 0 ELSE userLocation[1].lng,
               thumbnail |-> 0]
    /\ geoError' = (IF userLocation = <<>> THEN NoError ELSE geoError)
    /\ UNCHANGED <<awardVars, lateWrites, generated,
                   storeVars, queryVars, rarityVars, image, subject, loading, publishError,
                   result, genCall, published, userLocation, permission,
                   exploreVars>>

\* handlePublish up to its first await that suspends: with a cached
\* location getLocation returns it and the thumbnail step starts
HandlePublish ==
    /\ result # <<>>
    /\ ~published
    /\ ~publishing
    /\ nextId < MaxPublish
    /\ publishing' = TRUE
    /\ publishError' = NoError
    /\ publishStep' = (IF userLocation = <<>> THEN StepLocation ELSE StepImage)
    /\ pub' = [pc |-> IF userLocation = <<>> THEN "locating" ELSE "thumbnail",
               question |-> result, rarity |-> questionRarity, image |-> image,
               lat |-> IF userLocation = <<>> THEN 0 ELSE userLocation[1].lat,
               lng |-> IF userLocation = <<>> THEN 0 ELSE userLocation[1].lng,
               thumbnail |-> 0]
    /\ geoError' = (IF userLocation = <<>> THEN NoError ELSE geoError)
    /\ UNCHANGED <<awardVars, lateWrites, generated,
                   storeVars, queryVars, rarityVars, image, subject, loading,
                   result, genCall, published, userLocation, permission,
                   exploreVars>>

\* getCurrentPosition resolves: setUserLocation(loc); return loc
PublishLocated ==
    /\ pub.pc = "locating"
    /\ permission = "granted"
    /\ \E at \in Observers :
          /\ userLocation' = <<[lat |-> at[1], lng |-> at[2]]>>
          /\ pub' = [pub EXCEPT !.pc = "thumbnail", !.lat = at[1], !.lng = at[2]]
    /\ publishStep' = StepImage
    /\ UNCHANGED <<awardVars, lateWrites, generated,
                   storeVars, queryVars, rarityVars, image, subject, loading,
                   result, genCall, publishing, published, publishError,
                   geoError, permission, exploreVars>>

\* getCurrentPosition rejects: setGeoError(err.message), and handlePublish
\* throws its own message, caught by its outer catch
PublishLocationRejected ==
    /\ pub.pc = "locating"
    /\ permission # "prompt"
    /\ \E msg \in GeoErrors : geoError' = msg
    /\ publishError' = LocationFailed
    /\ publishStep' = NoStep
    /\ publishing' = FALSE
    /\ pub' = IdlePublish
    /\ UNCHANGED <<awardVars, lateWrites, generated,
                   storeVars, queryVars, rarityVars, image, subject, loading,
                   result, genCall, published, userLocation, permission,
                   exploreVars>>

\* the thumbnail kept whatever its length
KeptAnyThumbnail(length) == length

\* if (thumbnail.length > 500000) thumbnail = ""
KeptThumbnail(length) == IF length > ThumbnailLimit THEN 0 ELSE length

\* compressImage settles before the 5 s timer: it resolves with the base64
\* text, or it rejects (image.file of a removed image throws at once)
ThumbnailSettled ==
    /\ pub.pc = "thumbnail"
    /\ \/ /\ pub.image # NoImage
          /\ \E length \in ThumbnailLengths :
                pub' = [pub EXCEPT !.pc = "write",
                                   !.thumbnail = KeptThumbnail(length)]
       \/ pub' = [pub EXCEPT !.pc = "write", !.thumbnail = 0]
    /\ publishStep' = StepSaving
    /\ UNCHANGED <<awardVars, lateWrites, generated,
                   storeVars, queryVars, rarityVars, image, subject, loading,
                   result, genCall, publishing, published, publishError,
                   geoVars, exploreVars>>

\* the 5 s timer rejects the race first: thumbnail stays ""
ThumbnailTimeout ==
    /\ pub.pc = "thumbnail"
    /\ pub' = [pub EXCEPT !.pc = "write", !.thumbnail = 0]
    /\ publishStep' = StepSaving
    /\ UNCHANGED <<awardVars, lateWrites, generated,
                   storeVars, queryVars, rarityVars, image, subject, loading,
                   result, genCall, publishing, published, publishError,
                   geoVars, exploreVars>>

\* docData of handlePublish: rarity: questionRarity || "common"
DocData ==
    [id |-> nextId + 1, lat |-> pub.lat, lng |-> pub.lng,
     timestamp |-> nextId + 1,
     rarity |-> IF pub.rarity = NoRarity THEN "common" ELSE pub.rarity,
     rolled |-> pub.question[1].rolled,
     serial |-> pub.question[1].serial,
     thumbnail |-> pub.thumbnail]

\* addDoc resolves before the 10 s timer: setPublished(true)
WriteResolved ==
    /\ pub.pc = "write"
    /\ questions' = Append(questions, DocData)
    /\ nextId' = nextId + 1
    /\ published' = TRUE
    /\ publishStep' = NoStep
    /\ publishing' = FALSE
    /\ pub' = IdlePublish
    /\ UNCHANGED <<awardVars, lateWrites, generated,
                   variant, lsIndex, lsItems, queryVars, rarityVars, image,
                   subject, loading, result, genCall, publishError, geoVars,
                   exploreVars>>

\* addDoc rejects before the 10 s timer: setPublishError(err.message || ...)
WriteRejected ==
    /\ pub.pc = "write"
    /\ publishError' = WriteFailed
    /\ publishStep' = NoStep
    /\ publishing' = FALSE
    /\ pub' = IdlePublish
    /\ UNCHANGED <<awardVars, lateWrites, generated,
                   storeVars, queryVars, rarityVars, image, subject, loading,
                   result, genCall, published, geoVars, exploreVars>>

\* handlePublish awaiting addDoc alone, with no timer raced against it
WriteTimerMissing == FALSE /\ UNCHANGED vars

\* the 10 s timer rejects the race first.  The race leaves addDoc running:
\* the document, its timestamp taken, is still queued for the collection
WriteTimeout ==
    /\ pub.pc = "write"
    /\ publishError' = WriteTimedOut
    /\ publishStep' = NoStep
    /\ publishing' = FALSE
    /\ pub' = IdlePublish
    /\ lateWrites' = lateWrites \union {DocData}
    /\ nextId' = nextId + 1
    /\ UNCHANGED <<awardVars, generated,
                   variant, questions, lsIndex, lsItems, queryVars, rarityVars, image, subject, loading,
                   result, genCall, published, geoVars, exploreVars>>

\* a document taking its place among the stored ones, which
\* loadAllQuestions reads by timestamp
RECURSIVE InsertByTimestamp(_, _)
InsertByTimestamp(stored, d) ==
    IF stored = <<>> THEN <<d>>
    ELSE IF stored[Len(stored)].timestamp <= d.timestamp THEN Append(stored, d)
    ELSE Append(InsertByTimestamp(SubSeq(stored, 1, Len(stored) - 1), d),
                stored[Len(stored)])

\* an addDoc that outlived its race resolves: the document is stored
LateWriteLands ==
    /\ \E d \in lateWrites :
          /\ questions' = InsertByTimestamp(questions, d)
          /\ lateWrites' = lateWrites \ {d}
    /\ UNCHANGED <<variant, lsIndex, lsItems, nextId, queryVars, rarityVars,
                   image, subject, loading, result, genCall, publishing,
                   published, publishError, pub, publishStep, generated,
                   geoVars, exploreVars, awardVars>>

\* an addDoc that outlived its race rejects: nothing is stored
LateWriteRejected ==
    /\ \E d \in lateWrites : lateWrites' = lateWrites \ {d}
    /\ UNCHANGED <<storeVars, queryVars, rarityVars, image, subject, loading,
                   result, genCall, publishing, published, publishError, pub,
                   publishStep, generated, geoVars, exploreVars, awardVars>>

\* the Google sign-in variant on an empty collection
InitCreate ==
    /\ EmptyStore
    /\ InitQuery
    /\ InitRarity
    /\ InitApp

NextCreate ==
    \/ HandleFile
    \/ SelectSubject
    \/ HandleGenerate
    \/ GenerateResolved
    \/ GenerateRejected
    \/ HandleReset
    \/ AnswerPrompt
    \/ HandlePublish
    \/ PublishLocated
    \/ PublishLocationRejected
    \/ ThumbnailSettled
    \/ ThumbnailTimeout
    \/ WriteResolved
    \/ WriteRejected
    \/ WriteTimeout
    \/ LateWriteLands
    \/ LateWriteRejected

\* the create tab
SpecCreate == InitCreate /\ [][NextCreate]_vars

(***************************************************************************)
(* The explore tab: loadExplore(radius) of the three variants.  Calls      *)
(* overlap: nothing disables the radius and refresh buttons while a call   *)
(* is in flight.                                                           *)
(***************************************************************************)
\* loadExplore(radius) up to its first await that suspends: with a cached
\* location getLocation returns it and loadNearbyQuestions starts reading
StartedCall(radius) ==
    IF userLocation = <<>>
    THEN [pc |-> "locating", radius |-> radius, lat |-> 0, lng |-> 0]
    ELSE [pc |-> "fetching", radius |-> radius, lat |-> userLocation[1].lat,
          lng |-> userLocation[1].lng]

\* a radius button: setSearchRadius(r); loadExplore(r)
SelectRadius ==
    /\ calls["radius"].pc = "idle"
    /\ \E r \in RadiusMenu :
          /\ searchRadius' = r
          /\ calls' = [calls EXCEPT !["radius"] = StartedCall(r)]
    /\ geoError' = NoError
    /\ UNCHANGED <<awardVars, storeVars, queryVars, rarityVars, createVars, userLocation,
                   permission>>

\* the refresh button, and the effect run on entering the explore tab:
\* loadExplore(searchRadius)
RefreshExplore ==
    /\ calls["refresh"].pc = "idle"
    /\ calls' = [calls EXCEPT !["refresh"] = StartedCall(searchRadius)]
    /\ geoError' = NoError
    /\ UNCHANGED <<awardVars, storeVars, queryVars, rarityVars, createVars, userLocation,
                   permission, searchRadius>>

\* getCurrentPosition resolves: setUserLocation(loc), and loadExplore goes
\* on to loadNearbyQuestions(loc.lat, loc.lng, radius)
ExploreLocated ==
    /\ permission = "granted"
    /\ \E site \in CallSites, at \in Observers :
          /\ calls[site].pc = "locating"
          /\ userLocation' = <<[lat |-> at[1], lng |-> at[2]]>>
          /\ calls' = [calls EXCEPT ![site] =
                          [pc |-> "fetching", radius |-> calls[site].radius,
                           lat |-> at[1], lng |-> at[2]]]
    /\ UNCHANGED <<awardVars, storeVars, queryVars, rarityVars, createVars, geoError,
                   permission, searchRadius>>

\* a loadExplore that answers a failed location request by going on with
\* the coordinates <<0, 0>>
ExploreLocationRejectedGoesOn ==
    /\ permission # "prompt"
    /\ \E site \in CallSites :
          /\ calls[site].pc = "locating"
          /\ calls' = [calls EXCEPT ![site] =
                          [pc |-> "fetching", radius |-> calls[site].radius,
                           lat |-> 0, lng |-> 0]]
    /\ \E msg \in GeoErrors : geoError' = msg
    /\ UNCHANGED <<awardVars, storeVars, queryVars, rarityVars, createVars, userLocation,
                   permission, searchRadius>>

\* getCurrentPosition rejects: setGeoError(err.message), the rejection
\* reaches the catch of loadExplore and loadNearbyQuestions is not called
ExploreLocationRejected ==
    /\ permission # "prompt"
    /\ \E site \in CallSites :
          /\ calls[site].pc = "locating"
          /\ calls' = [calls EXCEPT ![site] = IdleCall]
    /\ \E msg \in GeoErrors : geoError' = msg
    /\ UNCHANGED <<awardVars, storeVars, queryVars, rarityVars, createVars, userLocation,
                   permission, searchRadius>>

\* the filter reading the radius selected in the tab where its argument is meant
SelectedRadius(site) == searchRadius

\* the radius a loadNearbyQuestions call filters by: its own argument
CallRadius(site) == calls[site].radius

\* what loadNearbyQuestions of this call returns on what storage holds now
CallResult(site) ==
    IF variant = "local"
    THEN NearbyLocal(calls[site].lat, calls[site].lng, CallRadius(site))
    ELSE Returned(NearbyFirestore(loadAllQuestions, calls[site].lat,
                                  calls[site].lng, CallRadius(site)))

\* loadNearbyQuestions returns: setNearbyQuestions(...)
ExploreFetched ==
    /\ \E site \in CallSites :
          LET call == calls[site]
              candidates == IF variant = "local" THEN ParsedIndex
                            ELSE loadAllQuestions
          IN  /\ call.pc = "fetching"
              /\ nearbyQuestions' = CallResult(site).value
              /\ lastQuery' = <<[lat |-> call.lat, lng |-> call.lng,
                                 radius |-> call.radius]>>
              /\ lastCandidates' = candidates
              /\ repeatedCall' = SameCall(<<call.lat, call.lng>>, call.radius,
                                          candidates, "ok")
              /\ calls' = [calls EXCEPT ![site] = IdleCall]
    /\ loadStatus' = "ok"
    /\ UNCHANGED <<awardVars, storeVars, rarityVars, createVars, geoVars, searchRadius>>

\* getDocs rejects: the catch of loadExplore, nearbyQuestions is kept
ExploreFetchRejected ==
    /\ variant \in FirestoreVariants
    /\ \E site \in CallSites :
          /\ calls[site].pc = "fetching"
          /\ calls' = [calls EXCEPT ![site] = IdleCall]
    /\ loadStatus' = "rejected"
    /\ lastQuery' = NoQuery
    /\ lastCandidates' = <<>>
    /\ repeatedCall' = FALSE
    /\ geoError' = (IF variant = "google" THEN WriteFailed ELSE geoError)
    /\ UNCHANGED <<awardVars, storeVars, rarityVars, createVars, nearbyQuestions,
                   userLocation, permission, searchRadius>>

\* setQuestionRarity(rollRarity()) of handleGenerate, run in the create tab
\* while loadExplore calls are in flight
GenerateRoll ==
    /\ \E rnd \in GenerateDraws :
          /\ roll' = rnd
          /\ questionRarity' = rollRarity(rnd)
    /\ UNCHANGED <<storeVars, queryVars, tierTable, appVars>>

\* the explore tab over an empty store that questions are published to
InitExplore ==
    /\ variant \in Variants
    /\ nextId = 0
    /\ questions = <<>>
    /\ lsIndex = NoItem
    /\ lsItems = <<>>
    /\ InitQuery
    /\ InitRarity
    /\ InitApp

NextExplore ==
    \/ SelectRadius
    \/ RefreshExplore
    \/ AnswerPrompt
    \/ ExploreLocated
    \/ ExploreLocationRejected
    \/ ExploreFetched
    \/ ExploreFetchRejected
    \/ nextId < MaxLate /\ PublishFirestore
    \/ nextId < MaxLate /\ PublishLocal

\* the explore tab
SpecExplore == InitExplore /\ [][NextExplore]_vars

(***************************************************************************)
(* The points system of the Google sign-in variant: the mount effect that *)
(* loads the user's document, and awardPoints, called from the explore    *)
(* list when a question is answered correctly.  Nothing disables the list  *)
(* while an updateDoc is in flight, and reloading the list keeps           *)
(* exploreChoices, which is keyed by position.                             *)
(***************************************************************************)
\* what a click on a choice of an explore question amounts to
Letters == {"right", "wrong"}

\* getRarity(q.rarity || "common").points
PointsOf(q) ==
    LET id == IF "rarity" \in DOMAIN q THEN q.rarity ELSE "common"
        found == {i \in DOMAIN RARITIES : RARITIES[i].id = id}
    IN  IF found = {} THEN RARITIES[1].points
        ELSE RARITIES[CHOOSE i \in found : TRUE].points

\* the mount effect finds the document: setUserPoints, setAnsweredIds
UserLoaded ==
    /\ userLoad = "loading"
    /\ userDoc # <<>>
    /\ userLoad' = "done"
    /\ userPoints' = userDoc[1].points
    /\ answeredIds' = userDoc[1].answeredIds
    /\ UNCHANGED <<storeVars, queryVars, rarityVars, createVars, geoVars,
                   exploreVars, userDoc, awards, exploreChoices>>

\* the mount effect finds no document and creates it with setDoc
UserCreated ==
    /\ userLoad = "loading"
    /\ userDoc = <<>>
    /\ userLoad' = "done"
    /\ userDoc' = <<[points |-> 0, answeredIds |-> {}]>>
    /\ UNCHANGED <<storeVars, queryVars, rarityVars, createVars, geoVars,
                   exploreVars, userPoints, answeredIds, awards, exploreChoices>>

\* getDoc or setDoc rejects: the catch of the mount effect only warns
UserLoadRejected ==
    /\ userLoad = "loading"
    /\ userLoad' = "done"
    /\ UNCHANGED <<storeVars, queryVars, rarityVars, createVars, geoVars,
                   exploreVars, userDoc, userPoints, answeredIds, awards,
                   exploreChoices>>

\* awardPoints(questionId, rarity) up to its await: it returns at once for
\* an id of answeredIds, else it calls updateDoc with the answeredIds of its
\* closure
AwardStarted(q) ==
    IF q.id \in answeredIds THEN awards
    ELSE Append(awards, [id |-> q.id, pts |-> PointsOf(q), seen |-> answeredIds])

\* the onClick of a choice of the explore list's i-th question
AnswerExplore ==
    /\ \E i \in DOMAIN nearbyQuestions, letter \in Letters :
          /\ i \notin DOMAIN exploreChoices
          /\ exploreChoices' = (i :> letter) @@ exploreChoices
          /\ awards' = IF letter = "right" THEN AwardStarted(nearbyQuestions[i])
                       ELSE awards
    /\ UNCHANGED <<storeVars, queryVars, rarityVars, createVars, geoVars,
                   exploreVars, userDoc, userLoad, userPoints, answeredIds>>

\* [...answeredIds, questionId] of the closure: the array an award writes,
\* whatever is stored
WrittenAnsweredIds(a) == a.seen \union {a.id}

\* updateDoc(userRef, {points: increment(pts), answeredIds: [...answeredIds,
\* questionId]}): the increment is applied to the stored total, the array
\* replaces the stored array
UpdatedUserDoc(a) ==
    <<[points |-> userDoc[1].points + a.pts,
       answeredIds |-> WrittenAnsweredIds(a)]>>

\* updateDoc resolves: setUserPoints((p) => p + pts),
\* setAnsweredIds((prev) => new Set([...prev, questionId]))
AwardResolved ==
    /\ userDoc # <<>>
    /\ \E k \in DOMAIN awards :
          /\ userDoc' = UpdatedUserDoc(awards[k])
          /\ userPoints' = userPoints + awards[k].pts
          /\ answeredIds' = answeredIds \union {awards[k].id}
          /\ awards' = RemoveAt(awards, k)
    /\ UNCHANGED <<storeVars, queryVars, rarityVars, createVars, geoVars,
                   exploreVars, userLoad, exploreChoices>>

\* updateDoc rejects (no document yet, offline, rules): the catch still
\* updates the local state
AwardRejected ==
    /\ \E k \in DOMAIN awards :
          /\ userPoints' = userPoints + awards[k].pts
          /\ answeredIds' = answeredIds \union {awards[k].id}
          /\ awards' = RemoveAt(awards, k)
    /\ UNCHANGED <<storeVars, queryVars, rarityVars, createVars, geoVars,
                   exploreVars, userDoc, userLoad, exploreChoices>>

\* the users document found at sign-in: none at the first login, else the
\* one the first login created
StartingUserDocs == {<<>>, <<[points |-> 0, answeredIds |-> {}]>>}

\* a signed-in session on an empty collection
InitAward ==
    /\ EmptyStore
    /\ InitQuery
    /\ InitRarity
    /\ \E doc \in StartingUserDocs : InitSession(doc)

NextAward ==
    \/ UserLoaded
    \/ UserCreated
    \/ UserLoadRejected
    \/ AnswerExplore
    \/ AwardResolved
    \/ AwardRejected
    \/ PublishFirestore
    \/ LoadNearbyFirestore
    \/ LoadNearbyRejected

\* the points system and the explore list it is fed from
SpecAward == InitAward /\ [][NextAward]_vars

(***************************************************************************)
(* Specifications.                                                         *)
(***************************************************************************)
Init == InitStore /\ InitQuery /\ InitRarity /\ InitApp

\* the storage helpers and the proximity filter
Next ==
    \/ PublishFirestore
    \/ PublishLocal
    \/ CorruptIndex
    \/ LoadNearbyFirestore
    \/ LoadNearbyRejected
    \/ LoadNearbyLocal

Spec == Init /\ [][Next]_vars

\* a store that has reached the limits of loadAllQuestions and publishQuestion
InitLimit ==
    /\ variant \in Variants
    /\ nextId = 0
    /\ IF variant = "local"
       THEN /\ questions = <<>>
            /\ lsIndex = StoredIndex(SliceBack(OlderDocs(SeedAtLimit, SeedLocal),
                                               IndexLimit))
            /\ lsItems = OlderItems(SeedAtLimit, SeedLocal)
       ELSE /\ questions = OlderDocs(SeedAtLimit, SeedCloud)
            /\ lsIndex = NoItem
            /\ lsItems = <<>>
    /\ InitQuery
    /\ InitRarity
    /\ InitApp

\* the storage helpers and the proximity filter on a long-used store
NextLimit ==
    \/ nextId < MaxLate /\ PublishFirestore
    \/ nextId < MaxLate /\ PublishLocal
    \/ LoadNearbyFirestore
    \/ LoadNearbyRejected
    \/ LoadNearbyLocal

SpecLimit == InitLimit /\ [][NextLimit]_vars

NextRarity == RollRarity \/ RollRarityOvershoot

InitRoller == EmptyStore /\ InitQuery /\ InitRarity /\ InitApp

\* the rarity roller on the shipped table
SpecRarity == InitRoller /\ [][NextRarity]_vars

InitLoaded == EmptyStore /\ InitQuery /\ InitConfig /\ InitApp

\* the rarity roller on whatever table the module is loaded with
SpecConfig == InitLoaded /\ [][NextRarity]_vars

(***************************************************************************)
(* What the last resolved proximity query was asked and what it read.      *)
(***************************************************************************)
HasQuery == lastQuery # NoQuery
Query == lastQuery[1]
Resolved == HasQuery /\ loadStatus = "ok"

\* the distance of a candidate from the observer of the last query
FromObserver(q) == haversineDistance(Query.lat, Query.lng, q.lat, q.lng)

\* the candidates of the last query that lie within its radius
CandidatesWithin ==
    {i \in 1..Len(lastCandidates) : FromObserver(lastCandidates[i]) <= Query.radius}

\* where the candidate with this id stood in the candidate list
PositionOf(id) == CHOOSE k \in 1..Len(lastCandidates) : lastCandidates[k].id = id

\* localStorage variant: the record of every candidate is stored
AllRecordsStored ==
    variant = "local" =>
        \A i \in 1..Len(lastCandidates) : lastCandidates[i].id \in DOMAIN lsItems

At(q, lat, lng) == q.lat = lat /\ q.lng = lng

\* the candidate list is one question 0.01 degrees east (A, about 1.1 km) and
\* one question 1 degree east (B, about 111 km) of the observer <<0, 0>>
ScenarioAB ==
    /\ Query = [lat |-> 0, lng |-> 0, radius |-> 5000]
    /\ Len(lastCandidates) = 2
    /\ \E i \in 1..2 : At(lastCandidates[i], 0, 1)
    /\ \E i \in 1..2 : At(lastCandidates[i], 0, 100)
    /\ AllRecordsStored

(***************************************************************************)
(* C1: every item loadNearbyQuestions returns lies within the radius of    *)
(* the observer, its distance field is that distance, and the returned     *)
(* sequence is sorted non-decreasing by distance; with the observer at     *)
(* <<0, 0>>, the candidates A and B and a radius of 5000 m it returns A    *)
(* alone.                                                                  *)
(***************************************************************************)
C1_WithinRadiusSorted ==
    Resolved =>
        /\ \A i \in 1..Len(nearbyQuestions) :
              /\ nearbyQuestions[i].distance = FromObserver(nearbyQuestions[i])
              /\ FromObserver(nearbyQuestions[i]) <= Query.radius
        /\ \A i, j \in 1..Len(nearbyQuestions) :
              i < j => nearbyQuestions[i].distance <= nearbyQuestions[j].distance
        /\ ScenarioAB =>
              /\ Len(nearbyQuestions) = 1
              /\ At(nearbyQuestions[1], 0, 1)

\* a query returned three or more items at more than one distance and left
\* a candidate out for lying beyond the radius
C1_Witness ==
    /\ Resolved
    /\ Len(nearbyQuestions) >= 3
    /\ nearbyQuestions[1].distance < nearbyQuestions[Len(nearbyQuestions)].distance
    /\ \E i \in 1..Len(lastCandidates) : i \notin CandidatesWithin

(***************************************************************************)
(* C2: the returned sequence is no longer than min(cap, number of          *)
(* candidates within the radius), the cap being 30 in the Firestore        *)
(* variants and 20 in the localStorage variant.                            *)
(***************************************************************************)
C2_LengthAtMostCap ==
    Resolved =>
        Len(nearbyQuestions)
            <= Min(IF variant = "local" THEN 20 ELSE 30, Cardinality(CandidatesWithin))

\* more than 30 candidates lay within the radius and 30 were returned
C2_Witness ==
    /\ Resolved
    /\ variant \in FirestoreVariants
    /\ Cardinality(CandidatesWithin) > 30
    /\ Len(nearbyQuestions) = 30

(***************************************************************************)
(* C8: a query that finds no candidates (no stored questions; in the       *)
(* localStorage variant a missing or unreadable index) returns the empty   *)
(* sequence and does not throw.                                            *)
(***************************************************************************)
C8_EmptyCandidatesEmptyResult ==
    (HasQuery /\ lastCandidates = <<>>) =>
        /\ loadStatus = "ok"
        /\ nearbyQuestions = <<>>

\* the localStorage variant was queried while the index it had stored was
\* unreadable
C8_Witness ==
    /\ variant = "local"
    /\ nextId = 0
    /\ DOMAIN lsItems # {}
    /\ lsIndex = Corrupt
    /\ HasQuery
    /\ lastCandidates = <<>>
    /\ nearbyQuestions = <<>>

(***************************************************************************)
(* C9: returned items at exactly equal distance stand in the order they    *)
(* had in the candidate list.                                              *)
(***************************************************************************)
C9_TiesKeepCandidateOrder ==
    Resolved =>
        \A i, j \in 1..Len(nearbyQuestions) :
            (i < j /\ nearbyQuestions[i].distance = nearbyQuestions[j].distance)
                => PositionOf(nearbyQuestions[i].id) < PositionOf(nearbyQuestions[j].id)

\* two questions published from different places were returned at the same
\* distance
C9_Witness ==
    /\ Resolved
    /\ \E i, j \in 1..Len(nearbyQuestions) :
          /\ i < j
          /\ nearbyQuestions[i].distance = nearbyQuestions[j].distance
          /\ nearbyQuestions[i].lat # nearbyQuestions[j].lat

(***************************************************************************)
(* C10: the Firestore variants' filter applied to its own output, with the *)
(* same observer, radius and cap, returns that output unchanged.           *)
(***************************************************************************)
C10_Idempotent ==
    (Resolved /\ variant \in FirestoreVariants) =>
        NearbyFirestore(nearbyQuestions, Query.lat, Query.lng, Query.radius)
            = nearbyQuestions

\* the output fed back had ties in it and had dropped candidates
C10_Witness ==
    /\ Resolved
    /\ variant \in FirestoreVariants
    /\ Len(nearbyQuestions) >= 2
    /\ nearbyQuestions[1].distance = nearbyQuestions[2].distance
    /\ Len(nearbyQuestions) < Len(lastCandidates)

(***************************************************************************)
(* The rarity roller's claims.  A draw is roll / RandomDenominator of the  *)
(* total weight; a draw of Math.random() has roll < RandomDenominator.     *)
(***************************************************************************)
Rolled == questionRarity # NoRarity
InRange == roll \in 0..(RandomDenominator - 1)

\* the weight of the first i tiers of the table
CumulativeWeight(i) == TotalWeight(SubSeq(tierTable, 1, i))

\* draw <= cumulative weight of the first i tiers, both scaled
Covers(i, rnd) ==
    rnd * TotalWeight(tierTable) <= CumulativeWeight(i) * RandomDenominator

(***************************************************************************)
(* C3: whatever the draw, rollRarity returns one of common, uncommon,      *)
(* rare, epic, legendary.                                                  *)
(***************************************************************************)
C3_RarityInTierSet ==
    Rolled =>
        questionRarity \in {"common", "uncommon", "rare", "epic", "legendary"}

\* a draw of Math.random() returned the rarest tier
C3_Witness == Rolled /\ InRange /\ questionRarity = "legendary"

(***************************************************************************)
(* C4: for a draw d with 0 <= d < total weight rollRarity returns the      *)
(* first tier, in table order, whose cumulative weight is >= d; a draw of  *)
(* 0 returns common and the greatest draw below the total returns          *)
(* legendary.                                                              *)
(***************************************************************************)
C4_FirstTierCoveringDraw ==
    (Rolled /\ InRange) =>
        /\ \E i \in 1..Len(tierTable) :
              /\ Covers(i, roll)
              /\ \A j \in 1..(i - 1) : ~Covers(j, roll)
              /\ questionRarity = tierTable[i].id
        /\ roll = 0 => questionRarity = "common"
        /\ roll = RandomDenominator - 1 => questionRarity = "legendary"

\* the draw sat exactly on the boundary between the first two tiers
C4_Witness ==
    /\ Rolled
    /\ roll * TotalWeight(tierTable) = tierTable[1].weight * RandomDenominator
    /\ questionRarity = "common"

(***************************************************************************)
(* C5: when the draw reaches or passes the total weight rollRarity still   *)
(* returns a tier of the table: the last tier, or the default "common"     *)
(* once the walk has passed every tier with a positive remainder.          *)
(***************************************************************************)
C5_FallbackIsATier ==
    (Rolled /\ roll >= RandomDenominator) =>
        /\ questionRarity \in {tierTable[i].id : i \in 1..Len(tierTable)}
        /\ questionRarity \in {tierTable[Len(tierTable)].id, "common"}
        /\ roll > RandomDenominator => questionRarity = "common"

\* the walk passed every tier with a remainder above 0
C5_Witness ==
    /\ Rolled
    /\ roll > RandomDenominator
    /\ questionRarity = "common"

\* the grid points rnd in 1 .. RandomDenominator at which rollRarity returns
\* id.  The tier boundaries are grid points and the walk tests roll <= 0, so
\* every draw in the cell (rnd - 1, rnd] returns what rnd returns: the cells
\* counted are the part of the draw range [0, total weight) that returns id.
CellsReturning(id) ==
    {rnd \in 1..RandomDenominator : rollRarity(rnd) = id}

(***************************************************************************)
(* C6: the part of the draw range [0, total weight) on which rollRarity    *)
(* returns a tier is weight / total weight of the range: 50, 30, 13, 5 and *)
(* 2 hundredths for common, uncommon, rare, epic and legendary.            *)
(***************************************************************************)
C6_ShareEqualsWeight ==
    LET share == [common |-> 50, uncommon |-> 30, rare |-> 13, epic |-> 5,
                  legendary |-> 2]
    IN  /\ \A id \in DOMAIN share :
              Cardinality(CellsReturning(id)) * 100 = share[id] * RandomDenominator
        /\ (Rolled /\ InRange /\ roll > 0) => roll \in CellsReturning(questionRarity)

\* a draw of Math.random() fell in the share of a middle tier
C6_Witness == Rolled /\ InRange /\ questionRarity = "rare"

CallStep ==
    \/ lastQuery' # lastQuery
    \/ loadStatus' # loadStatus
    \/ nearbyQuestions' # nearbyQuestions
    \/ repeatedCall' # repeatedCall

\* the record without the distance the filter added
WithoutDistance(r) == [f \in DOMAIN r \ {"distance"} |-> r[f]]

(***************************************************************************)
(* C12: a loadNearbyQuestions call leaves the stored questions and their   *)
(* order as they were: it changes neither the candidate list nor any       *)
(* candidate record, and what it returns are new records, each a copy of   *)
(* a candidate with the distance added.                                    *)
(***************************************************************************)
C12_CandidatesUntouched ==
    [][/\ CallStep => UNCHANGED <<questions, lsIndex, lsItems>>
       /\ \A i \in 1..Len(questions') : "distance" \notin DOMAIN questions'[i]
       /\ \A i \in 1..Len(lsIndex'.entries) :
             "distance" \notin DOMAIN lsIndex'.entries[i]
       /\ (CallStep /\ loadStatus' = "ok") =>
             \A i \in 1..Len(nearbyQuestions') :
                /\ "distance" \in DOMAIN nearbyQuestions'[i]
                /\ \E k \in 1..Len(lastCandidates') :
                      /\ lastCandidates'[k].id = nearbyQuestions'[i].id
                      /\ "distance" \notin DOMAIN lastCandidates'[k]
                      /\ WithoutDistance(nearbyQuestions'[i])
                            = (IF variant = "local"
                               THEN Merge(lastCandidates'[k],
                                          lsItems[nearbyQuestions'[i].id])
                               ELSE lastCandidates'[k])]_vars

\* a query over a stored list returned some of it, re-ordered by distance
C12_Witness ==
    /\ Resolved
    /\ \E i, j \in 1..Len(nearbyQuestions) :
          /\ i < j
          /\ PositionOf(nearbyQuestions[i].id) > PositionOf(nearbyQuestions[j].id)
    /\ \/ /\ variant = "local"
          /\ lsIndex = StoredIndex(lastCandidates)
       \/ /\ variant \in FirestoreVariants
          /\ loadAllQuestions = lastCandidates

(***************************************************************************)
(* What was stored when the last query read its candidates: ids grow with  *)
(* publishing and nothing is deleted, so it is what storage holds up to    *)
(* the newest candidate the query read.                                    *)
(***************************************************************************)
NewestRead ==
    CHOOSE id \in {lastCandidates[k].id : k \in 1..Len(lastCandidates)} :
        \A k \in 1..Len(lastCandidates) : lastCandidates[k].id <= id

StoredAtCall ==
    LET newest == NewestRead
    IN  IF variant = "local"
        THEN {[id |-> id, lat |-> lsItems[id].lat, lng |-> lsItems[id].lng] :
                 id \in {i \in DOMAIN lsItems : i <= newest}}
        ELSE {[id |-> questions[k].id, lat |-> questions[k].lat,
               lng |-> questions[k].lng] :
                 k \in {i \in 1..Len(questions) : questions[i].id <= newest}}

StoredWithin == {q \in StoredAtCall : FromObserver(q) <= Query.radius}

CandidateIds == {lastCandidates[k].id : k \in 1..Len(lastCandidates)}

ReturnedIds == {nearbyQuestions[i].id : i \in 1..Len(nearbyQuestions)}

ResultCap == IF variant = "local" THEN LocalCap ELSE FirestoreCap

\* the candidates within the radius that the sort puts before candidate i
RankedBefore(i) ==
    {j \in CandidatesWithin :
        \/ FromObserver(lastCandidates[j]) < FromObserver(lastCandidates[i])
        \/ /\ FromObserver(lastCandidates[j]) = FromObserver(lastCandidates[i])
           /\ j < i}

(***************************************************************************)
(* C13: every proximity query is evaluated against the full set of         *)
(* published questions: a stored question within the radius is among the  *)
(* candidates, and it is absent from the result only because the result    *)
(* cap cut it off.                                                         *)
(***************************************************************************)
C13_EveryStoredQuestionConsidered ==
    (Resolved /\ lastCandidates # <<>>) =>
        \A q \in StoredWithin :
            /\ q.id \in CandidateIds
            /\ \/ q.id \in ReturnedIds
               \/ Cardinality(RankedBefore(PositionOf(q.id))) >= ResultCap

(***************************************************************************)
(* C13, amended: every proximity query is evaluated against at most 200    *)
(* candidates: the 200 most recently published questions, newest first,    *)
(* in the Firestore variants, and the entries of the stored index in the   *)
(* localStorage variant.  A candidate within the radius, its record        *)
(* stored, is absent from the result only when cap or more candidates      *)
(* within the radius rank before it.                                       *)
(***************************************************************************)
C13_NewestConsidered ==
    (Resolved /\ lastCandidates # <<>>) =>
        /\ Len(lastCandidates) <= QueryLimit
        /\ variant \in FirestoreVariants =>
              LET newest == NewestRead
              IN  lastCandidates =
                      SliceFront(Reverse(SelectSeq(questions,
                                                   LAMBDA q : q.id <= newest)),
                                 QueryLimit)
        /\ \A i \in CandidatesWithin :
              \/ lastCandidates[i].id \in ReturnedIds
              \/ Cardinality(RankedBefore(i)) >= ResultCap
              \/ variant = "local" /\ lastCandidates[i].id \notin DOMAIN lsItems

\* more than 200 questions were stored when the query read its 200
\* candidates, one of those left out lay within the radius, and the query
\* returned fewer questions than the cap
C13_Witness ==
    /\ Resolved
    /\ Len(lastCandidates) = QueryLimit
    /\ Cardinality(StoredAtCall) > QueryLimit
    /\ Len(nearbyQuestions) < ResultCap
    /\ \E q \in StoredWithin : q.id \notin ReturnedIds

TierIds == {RARITIES[i].id : i \in 1..Len(RARITIES)}

(***************************************************************************)
(* C14: each generated question gets exactly one rarity roll, made before  *)
(* the question is displayed or persisted, and the rarity stored with a    *)
(* published question is the tier rolled for the generation that produced  *)
(* that question.                                                          *)
(***************************************************************************)
C14_StoredRarityIsRolledTier ==
    /\ genCall # <<>> => genCall[1].rolled \in TierIds
    /\ result # <<>> => result[1].rolled \in TierIds
    /\ \A i \in 1..Len(questions) : questions[i].rarity = questions[i].rolled

\* a step in which the location request of a loadExplore call failed
LocationFailedStep ==
    \E site \in CallSites :
        /\ calls[site].pc = "locating"
        /\ calls'[site].pc # "locating"
        /\ userLocation' = userLocation
        /\ geoError' \in {GeoDenied, GeoUnavailable}

(***************************************************************************)
(* C15: when the observer's location is missing or its acquisition fails,  *)
(* loadExplore does not call loadNearbyQuestions and leaves                *)
(* nearbyQuestions as it was: a query is only ever made from a location    *)
(* that was acquired.                                                      *)
(***************************************************************************)
C15_NoLocationNoQuery ==
    [][/\ LocationFailedStep =>
             /\ UNCHANGED queryVars
             /\ \A site \in CallSites : calls'[site].pc # "fetching"
                                           \/ calls[site].pc = "fetching"
       /\ HasQuery' =>
             /\ userLocation' # <<>>
             /\ \E at \in Observers : Query'.lat = at[1] /\ Query'.lng = at[2]
       /\ \A site \in CallSites :
             calls'[site].pc = "fetching" => userLocation' # <<>>]_vars

\* the location request of one loadExplore failed after an overlapping one
\* had loaded questions, which are still displayed
C15_Witness ==
    /\ geoError \in {GeoDenied, GeoUnavailable}
    /\ Resolved
    /\ nearbyQuestions # <<>>
    /\ \A site \in CallSites : calls[site].pc = "idle"

(***************************************************************************)
(* C16: searchRadius starts at 5000 and is always one of 1000, 5000,       *)
(* 25000 and 50000 metres, and every proximity query loadExplore makes     *)
(* uses one of these four values as its radius.                            *)
(***************************************************************************)
C16_RadiusFromMenu ==
    /\ searchRadius = 5000
    /\ [](/\ searchRadius \in {1000, 5000, 25000, 50000}
          /\ \A site \in CallSites :
                calls[site].pc # "idle" =>
                    calls[site].radius \in {1000, 5000, 25000, 50000}
          /\ HasQuery => Query.radius \in {1000, 5000, 25000, 50000})

\* a query was made with the largest radius and the smallest was selected
\* while it was in flight
C16_Witness ==
    /\ Resolved
    /\ Query.radius = 50000
    /\ searchRadius = 1000
    /\ calls["radius"].pc = "fetching"
    /\ calls["radius"].radius = 1000

IndexIds(index) == {index.entries[k].id : k \in 1..Len(index.entries)}

\* every Firestore document stays in the collection as it was written, and
\* every localStorage record stays stored as it was written
RecordsKept ==
    /\ Len(questions') >= Len(questions)
    /\ SubSeq(questions', 1, Len(questions)) = questions
    /\ \A id \in DOMAIN lsItems :
          id \in DOMAIN lsItems' /\ lsItems'[id] = lsItems[id]

\* the ids of the questions loadAllQuestions reads before and after a step
ReadBefore ==
    {questions[k].id : k \in (Len(questions) - Min(QueryLimit, Len(questions)) + 1)
                              ..Len(questions)}
ReadAfter ==
    {questions'[k].id : k \in (Len(questions') - Min(QueryLimit, Len(questions')) + 1)
                               ..Len(questions')}

\* a publish that stores a record lists it in the index
CreatedListed ==
    \A id \in DOMAIN lsItems' : id \notin DOMAIN lsItems => id \in IndexIds(lsIndex')

(***************************************************************************)
(* C17: a question is created once at publish time and is immutable        *)
(* afterwards: no later operation modifies or removes a stored question    *)
(* record or makes it unreachable.                                         *)
(***************************************************************************)
C17_NeverUnreachable ==
    [][/\ RecordsKept
       /\ CreatedListed
       /\ \A id \in IndexIds(lsIndex) : id \in IndexIds(lsIndex')
       /\ ReadBefore \subseteq ReadAfter]_vars

(***************************************************************************)
(* C17, amended: a question is created once at publish time and its        *)
(* stored record is never modified or removed afterwards; a publish that   *)
(* finds 200 questions listed (in the localStorage index, or among the     *)
(* 200 that loadAllQuestions reads) pushes the oldest of them out, and     *)
(* that record, still stored, is from then on unreachable.  No other step  *)
(* makes a record unreachable.                                             *)
(***************************************************************************)
C17_RecordsKeptOldestUnlisted ==
    [][/\ RecordsKept
       /\ CreatedListed
       /\ \A k \in 1..Len(lsIndex.entries) :
             \/ lsIndex.entries[k].id \in IndexIds(lsIndex')
             \/ /\ k = 1
                /\ Len(lsIndex.entries) = IndexLimit
                /\ Len(lsIndex'.entries) = IndexLimit
                /\ nextId' = nextId + 1
       /\ \/ ReadBefore \subseteq ReadAfter
          \/ /\ Len(questions) >= QueryLimit
             /\ Len(questions') = Len(questions) + 1
             /\ ReadBefore \ ReadAfter
                    = {questions[Len(questions) - QueryLimit + 1].id}]_vars

\* a question published in the session is listed and an older one, still
\* stored, no longer is
C17_Witness ==
    /\ nextId >= 1
    /\ \/ /\ variant = "local"
          /\ Len(lsIndex.entries) = IndexLimit
          /\ \E id \in DOMAIN lsItems : id \notin IndexIds(lsIndex)
          /\ \E id \in DOMAIN lsItems : id > 0 /\ id \in IndexIds(lsIndex)
       \/ /\ variant \in FirestoreVariants
          /\ Len(questions) > QueryLimit
          /\ loadAllQuestions[1].id > 0

\* the explore tab with the roller called between the steps of its calls
NextOverlap == NextExplore \/ GenerateRoll

SpecOverlap == InitExplore /\ [][NextOverlap]_vars

\* a step in which the loadNearbyQuestions call of this site returned
FilterReturns(site) ==
    /\ calls[site].pc = "fetching"
    /\ calls'[site].pc = "idle"
    /\ loadStatus' = "ok"

\* a step in which rollRarity ran
RollerRuns == roll' # roll \/ questionRarity' # questionRarity

(***************************************************************************)
(* C18: overlapping calls of the proximity filter and the rarity roller    *)
(* need no coordination: whatever else is in flight, a filter call         *)
(* returns what the filter alone returns for its own observer and radius   *)
(* on the stored questions it read, a roll returns what the roller alone   *)
(* returns for its draw, and neither changes the other's arguments, the    *)
(* other's result or the stored questions.                                 *)
(***************************************************************************)
C18_OverlapAsAlone ==
    [][/\ \A site \in CallSites :
             FilterReturns(site) =>
                /\ nearbyQuestions' =
                      (IF variant = "local"
                       THEN NearbyLocal(calls[site].lat, calls[site].lng,
                                        calls[site].radius).value
                       ELSE NearbyFirestore(loadAllQuestions, calls[site].lat,
                                            calls[site].lng, calls[site].radius))
                /\ \A other \in CallSites \ {site} : calls'[other] = calls[other]
                /\ UNCHANGED <<storeVars, rarityVars>>
       /\ RollerRuns =>
             /\ questionRarity' = WalkTiers(RARITIES, roll' * TotalWeight(RARITIES))
             /\ UNCHANGED <<storeVars, queryVars, calls>>]_vars

\* a call returned questions while the call of the other site, made with
\* another radius, was still reading, and a roll had been made
C18_Witness ==
    /\ Resolved
    /\ nearbyQuestions # <<>>
    /\ Rolled
    /\ \E site \in CallSites :
          /\ calls[site].pc = "fetching"
          /\ calls[site].radius # Query.radius

\* the points the distance is tabulated for
Grid == {<<0, 0>>, <<0, 1>>, <<1, 0>>, <<0, 10>>, <<0, 30>>, <<0, 100>>}

Abs(n) == IF n < 0 THEN 0 - n ELSE n

\* the length in whole metres of an arc of delta hundredths of a degree on a
\* great circle of radius EarthRadius: R * pi * delta / 18000, computed in
\* millimetres with pi = 3.14159
ArcMetres(delta) ==
    ((((EarthRadius \div 1000) * 314159) \div 1800) * delta) \div 1000

\* the two points lie on the equator or on one meridian, where the
\* great-circle distance is the arc between them
OnOneCircle(p, q) == (p[1] = 0 /\ q[1] = 0) \/ p[2] = q[2]

SpecCreateFair ==
    /\ InitCreate
    /\ [][NextCreate]_vars
    /\ WF_vars(PublishLocated \/ PublishLocationRejected)
    /\ WF_vars(ThumbnailTimeout)
    /\ WF_vars(WriteTimeout)

\* handlePublish leaves by setPublished(true) or by setPublishError(...)
FinishesWithOutcome ==
    [][(publishing /\ ~publishing') =>
           (published' \/ publishError' # NoError)]_vars

(***************************************************************************)
(* C20: every Publish eventually finishes: the thumbnail step is abandoned *)
(* by its 5 s timer and the Firestore write by its 10 s timer, so          *)
(* publishing always returns to false, with published set or publishError  *)
(* set.                                                                    *)
(***************************************************************************)
C20_PublishFinishes ==
    /\ publishing ~> ~publishing
    /\ FinishesWithOutcome

(***************************************************************************)
(* C20, amended: a Publish that has its location (cached, or the           *)
(* permission prompt answered) eventually finishes, by the 5 s and 10 s    *)
(* timers if by nothing else, with published set or publishError set; a    *)
(* Publish waiting on an unanswered permission prompt is bounded by no     *)
(* timer.                                                                  *)
(***************************************************************************)
C20_LocatedPublishFinishes ==
    /\ (publishing /\ (pub.pc # "locating" \/ permission # "prompt")) ~> ~publishing
    /\ FinishesWithOutcome

\* a Publish was ended by the write timer
C20_Witness ==
    /\ ~publishing
    /\ publishError = WriteTimedOut
    /\ ~published
    /\ result # <<>>

\* a step in which an awardPoints call adds its points
AwardAdds(k) ==
    /\ k \in DOMAIN awards
    /\ awards' = RemoveAt(awards, k)
    /\ userPoints' = userPoints + awards[k].pts

(***************************************************************************)
(* C21: points are awarded for a question id at most once: an awardPoints  *)
(* call adds to userPoints and to the stored total only for an id that no  *)
(* earlier call has been awarded, also when two calls for the id overlap   *)
(* or the explore list was reloaded in between.                            *)
(***************************************************************************)
C21_AwardedAtMostOnce ==
    [][\A k \in DOMAIN awards :
          AwardAdds(k) => awards[k].id \notin answeredIds]_vars

(***************************************************************************)
(* C27: the answeredIds array of the user's document holds every id whose  *)
(* points were added to the stored total: an award's updateDoc adds its    *)
(* own id and keeps the ids that are stored.                               *)
(***************************************************************************)
C27_NoAwardedIdLost ==
    [][(userDoc # <<>> /\ userDoc' # userDoc) =>
          \E k \in DOMAIN awards :
             /\ awards' = RemoveAt(awards, k)
             /\ userDoc'[1].answeredIds =
                   userDoc[1].answeredIds \union {awards[k].id}]_vars

\* the documents stored or still queued for the collection
WrittenDocs ==
    {questions[i] : i \in DOMAIN questions} \union lateWrites

(***************************************************************************)
(* C22: the thumbnail of a published question is empty (length 0) or at    *)
(* most 500000 base64 characters: the thumbnail step always hands the      *)
(* publish on to the write, with the compressed image if it arrived in     *)
(* time and is not longer than that, else with the empty string.           *)
(***************************************************************************)
C22_ThumbnailBounded ==
    /\ [](\A d \in WrittenDocs : d.thumbnail <= ThumbnailLimit)
    /\ [][(pub.pc = "thumbnail" /\ pub' # pub) =>
             /\ pub'.pc = "write"
             /\ publishing'
             /\ pub'.thumbnail \in {0} \union
                   {l \in ThumbnailLengths : l <= ThumbnailLimit}]_vars

C22_Witness ==
    /\ \E i \in DOMAIN questions : questions[i].thumbnail = 0
    /\ \E i \in DOMAIN questions : questions[i].thumbnail = ThumbnailLimit

(***************************************************************************)
(* C23: a handlePublish run that started with a result ends in exactly one *)
(* of two ways: after a successful write with published = true and         *)
(* publishError = null, or with publishError set and published false; in   *)
(* both publishing is false and publishStep is empty.                      *)
(***************************************************************************)
C23_PublishOutcome ==
    [][(publishing /\ ~publishing') =>
          /\ publishStep' = NoStep
          /\ \/ /\ published'
                /\ publishError' = NoError
                /\ Len(questions') = Len(questions) + 1
             \/ /\ ~published'
                /\ publishError' # NoError
                /\ questions' = questions]_vars

C23_Witness ==
    /\ ~publishing
    /\ published
    /\ publishError = NoError
    /\ publishStep = NoStep
    /\ Len(questions) = 1
    /\ lateWrites = {}

(***************************************************************************)
(* C24: a publish attempt that ends with publishError set stored no        *)
(* question document: a document enters the collection only in the step    *)
(* that ends its attempt with published = true, so a retry after a         *)
(* reported failure, a write timeout included, never leaves two stored     *)
(* copies of one generated question.                                       *)
(***************************************************************************)
C24_FailedPublishStoresNothing ==
    /\ [][questions' # questions => (publishing /\ published')]_vars
    /\ [](\A i, j \in DOMAIN questions :
             questions[i].serial = questions[j].serial => i = j)

(***************************************************************************)
(* C25: a displayed result was generated from the image and the subject    *)
(* that are selected now, and there is an image whenever there is a        *)
(* result; a request in flight while the selection changes or is reset     *)
(* never puts a result of the old selection on screen.                     *)
(***************************************************************************)
C25_ResultOfCurrentSelection ==
    result # <<>> =>
        /\ image # NoImage
        /\ result[1].image = image
        /\ result[1].subject = subject

\* what the filter returns for the radius selected now, asked from where
\* the call of this site asks and on what storage holds now
SelectedResult(site) ==
    IF variant = "local"
    THEN NearbyLocal(calls[site].lat, calls[site].lng, searchRadius).value
    ELSE NearbyFirestore(loadAllQuestions, calls[site].lat, calls[site].lng,
                         searchRadius)

\* the loadExplore call of this site sets nearbyQuestions and no other call
\* is left in flight
LastLoadAnswers(site) ==
    /\ calls[site].pc = "fetching"
    /\ calls' = [calls EXCEPT ![site] = IdleCall]
    /\ loadStatus' = "ok"
    /\ \A other \in CallSites : calls'[other].pc = "idle"

(***************************************************************************)
(* C26: when overlapping explore loads have all completed, nearbyQuestions *)
(* is the result of the query for the selected searchRadius: the load that *)
(* answers last leaves the list of the selected radius, not that of an     *)
(* earlier radius.                                                         *)
(***************************************************************************)
C26_LatestRadiusShown ==
    [][\A site \in CallSites :
          LastLoadAnswers(site) => nearbyQuestions' = SelectedResult(site)]_vars

\* a publishQuestion call that threw: an id was drawn and no record stored
PublishLocalThrew ==
    /\ variant = "local"
    /\ nextId' = nextId + 1
    /\ lsItems' = lsItems

(***************************************************************************)
(* C28: in the localStorage variant every id listed in geoq-index has a    *)
(* stored record under that id, whatever publishQuestion calls were made   *)
(* and wherever a localStorage write failed, and a publishQuestion call    *)
(* that throws leaves the index as it was.                                 *)
(***************************************************************************)
C28_IndexedIdsHaveRecords ==
    /\ [](variant = "local" =>
             \A i \in DOMAIN ParsedIndex : ParsedIndex[i].id \in DOMAIN lsItems)
    /\ [][PublishLocalThrew => lsIndex' = lsIndex]_vars

====
